---- MODULE Spec2Model ----
(***************************************************************************)
(* Explicit-Euler integration of the Blasi 1993 and Liden 1988 biomass     *)
(* pyrolysis schemes (blasi_1993.py, kn_liden_1988.py, liden_1988.py).     *)
(*                                                                         *)
(* Numbers are exact rationals <<n, d>> in lowest terms with d > 0, so the *)
(* model is the scripts' arithmetic without floating-point rounding.       *)
(* The Arrhenius exponential cannot be computed on rationals: the rate     *)
(* constants a temperature yields are drawn once from a bounded set of     *)
(* non-negative rationals and reused by every call, as the scripts         *)
(* recompute the same values from the same T at every call.                *)
(***************************************************************************)
EXTENDS Integers, Sequences, FiniteSets

VARIABLES
  script,   \* which of the three scripts runs
  numpy,    \* the numpy release the script runs on (linspace differs)
  T,        \* temperature for rate constants
  dt,       \* time step
  tmax,     \* max time
  k,        \* the rate constants the Arrhenius expressions give at T
  pc,       \* position in the script
  err,      \* the exception that ended the script, "" when none
  nt,       \* total number of time steps
  t,        \* time vector
  i,        \* loop index
  wood, gas, tar, char,        \* concentration vectors
  wood2, gas2, tar2, char2,    \* blasi_1993.py: primary+secondary vectors
  gas1, gaschar,               \* liden_1988.py: gas from tar, (gas+char)
  stdout,   \* liden_1988.py: the printed mass-balance vectors
  call      \* a single call of a stepping function: arguments and result

vars == <<script, numpy, T, dt, tmax, k, pc, err, nt, t, i, wood, gas, tar,
          char, wood2, gas2, tar2, char2, gas1, gaschar, stdout, call>>

series == <<wood, gas, tar, char, wood2, gas2, tar2, char2, gas1, gaschar>>

----------------------------------------------------------------------------
(* Bounds of the model *)

MaxRate == 2     \* rate constants are n/2 for n in 0..MaxRate
MaxTmax == 3     \* tmax ranges over -2..MaxTmax

----------------------------------------------------------------------------
(* Exact rational arithmetic *)

Abs(n) == IF n < 0 THEN -n ELSE n

RECURSIVE GCD(_, _)
GCD(a, b) == IF b = 0 THEN a ELSE GCD(b, a % b)

Rat(n, d) ==
  LET g == GCD(Abs(n), Abs(d))
      s == IF d < 0 THEN -1 ELSE 1
  IN  <<(s * n) \div g, (s * d) \div g>>

Zero == <<0, 1>>
One == <<1, 1>>

Neg(x) == <<-x[1], x[2]>>

Add(x, y) ==
  LET g == GCD(x[2], y[2])
  IN  Rat(x[1] * (y[2] \div g) + y[1] * (x[2] \div g), (x[2] \div g) * y[2])

Sub(x, y) == Add(x, Neg(y))

Mul(x, y) ==
  LET g1 == GCD(Abs(x[1]), y[2])
      g2 == GCD(Abs(y[1]), x[2])
  IN  <<(x[1] \div g1) * (y[1] \div g2), (x[2] \div g2) * (y[2] \div g1)>>

Div(x, y) == Mul(x, Rat(y[2], y[1]))

Leq(x, y) ==
  LET g == GCD(x[2], y[2])
  IN  x[1] * (y[2] \div g) <= y[1] * (x[2] \div g)

Lt(x, y) == Leq(x, y) /\ x # y

Trunc(x) == IF x[1] >= 0 THEN x[1] \div x[2] ELSE -((-x[1]) \div x[2])

----------------------------------------------------------------------------
(* Rate constants *)

\* The values A * exp(-E / (R * T)) can take in the model: n/2, n in 0..MaxRate
\* (0 is the exponential underflowing at a low temperature).
RateVals == {Rat(n, 2) : n \in 0..MaxRate}

\* -E / (R * T) divides by zero when T is 0: the call raises before it
\* computes anything.
Raises(temp) == IF temp = 0 THEN "ZeroDivisionError" ELSE ""

\* The rate-constant sets a script's stepping function can compute.
RateConstants(scr) ==
  IF scr = "blasi"
  THEN [K1 : RateVals, K2 : RateVals, K3 : RateVals, K4 : RateVals, K5 : RateVals]
  ELSE [K : RateVals, K2 : RateVals]

NoRates == [K |-> Zero]

phistar == Rat(703, 1000)     \* maximum theoretical tar yield
FC == Rat(14, 100)            \* weight fraction of fixed carbon in wood
c3 == Div(FC, Sub(One, phistar))    \* char fraction of wood
g3 == Sub(One, c3)                  \* gas fraction of wood

----------------------------------------------------------------------------
(* The stepping functions. kk stands for the rate constants computed from  *)
(* the T argument; a result is the tuple the function returns.             *)

\* blasi with the sign of the wood rate lost
blasi_sign(w, g, tr, c, kk, h, s) ==
  LET rw == Mul(Add(Add(kk.K1, kk.K2), kk.K3), w)
      rg == IF s = 1 THEN Mul(kk.K1, w) ELSE Add(Mul(kk.K1, w), Mul(kk.K4, tr))
      rt == IF s = 1 THEN Mul(kk.K2, w)
            ELSE Sub(Mul(kk.K2, w), Mul(Add(kk.K4, kk.K5), tr))
      rc == IF s = 1 THEN Mul(kk.K3, w) ELSE Add(Mul(kk.K3, w), Mul(kk.K5, tr))
  IN  <<Add(w, Mul(rw, h)), Add(g, Mul(rg, h)),
        Add(tr, Mul(rt, h)), Add(c, Mul(rc, h))>>

\* blasi updating wood first and taking the other rates from the new wood
blasi_sequential(w, g, tr, c, kk, h, s) ==
  LET rw == Neg(Mul(Add(Add(kk.K1, kk.K2), kk.K3), w))
      nw == Add(w, Mul(rw, h))
      rg == IF s = 1 THEN Mul(kk.K1, nw) ELSE Add(Mul(kk.K1, nw), Mul(kk.K4, tr))
      rt == IF s = 1 THEN Mul(kk.K2, nw)
            ELSE Sub(Mul(kk.K2, nw), Mul(Add(kk.K4, kk.K5), tr))
      rc == IF s = 1 THEN Mul(kk.K3, nw) ELSE Add(Mul(kk.K3, nw), Mul(kk.K5, tr))
  IN  <<nw, Add(g, Mul(rg, h)), Add(tr, Mul(rt, h)), Add(c, Mul(rc, h))>>

\* blasi_1993.py: blasi(wood, gas, tar, char, T, dt, s=1)
blasi(w, g, tr, c, kk, h, s) ==
  IF s = 1
  THEN LET rw == Neg(Mul(Add(Add(kk.K1, kk.K2), kk.K3), w))
           rg == Mul(kk.K1, w)
           rt == Mul(kk.K2, w)
           rc == Mul(kk.K3, w)
       IN  <<Add(w, Mul(rw, h)), Add(g, Mul(rg, h)),
             Add(tr, Mul(rt, h)), Add(c, Mul(rc, h))>>
  ELSE LET rw == Neg(Mul(Add(Add(kk.K1, kk.K2), kk.K3), w))
           rg == Add(Mul(kk.K1, w), Mul(kk.K4, tr))
           rt == Sub(Mul(kk.K2, w), Mul(Add(kk.K4, kk.K5), tr))
           rc == Add(Mul(kk.K3, w), Mul(kk.K5, tr))
       IN  <<Add(w, Mul(rw, h)), Add(g, Mul(rg, h)),
             Add(tr, Mul(rt, h)), Add(c, Mul(rc, h))>>

\* kn_liden whose s = 2 branch forms tar from wood and cracks it
kn_liden_secondary(w, tr, kk, h, s) ==
  LET rw == Neg(Mul(kk.K, w))
      rt == IF s = 1 THEN Neg(Mul(kk.K2, w))
            ELSE Sub(Mul(kk.K, w), Mul(kk.K2, tr))
  IN  <<Add(w, Mul(rw, h)), Add(tr, Mul(rt, h))>>

\* kn_liden_1988.py: liden(wood, tar, T, dt, s=1); both branches are the same
kn_liden(w, tr, kk, h, s) ==
  IF s = 1
  THEN LET rw == Neg(Mul(kk.K, w))
           rt == Neg(Mul(kk.K2, w))
       IN  <<Add(w, Mul(rw, h)), Add(tr, Mul(rt, h))>>
  ELSE LET rw == Neg(Mul(kk.K, w))
           rt == Neg(Mul(kk.K2, w))
       IN  <<Add(w, Mul(rw, h)), Add(tr, Mul(rt, h))>>

\* liden with K3 = K, the tar share not taken off
liden_K3(w, g1, tr, gc, kk, h, s) ==
  LET K == kk.K
      K1 == Mul(K, phistar)
      K2 == kk.K2
      K3 == K
      rw == Neg(Mul(K, w))
      rg == Mul(K2, tr)
      rt == IF s = 1 THEN Mul(K1, w) ELSE Sub(Mul(K1, w), Mul(K2, tr))
      rgc == Mul(K3, w)
  IN  <<Add(w, Mul(rw, h)), IF s = 1 THEN Zero ELSE Add(g1, Mul(rg, h)),
        Add(tr, Mul(rt, h)), Add(gc, Mul(rgc, h))>>

\* liden_1988.py: liden(wood, gas1, tar, gaschar, T, dt, s=1)
liden(w, g1, tr, gc, kk, h, s) ==
  LET K == kk.K
      K1 == Mul(K, phistar)
      K2 == kk.K2
      K3 == Sub(K, K1)
  IN  IF s = 1
      THEN LET rw == Neg(Mul(K, w))
               rt == Mul(K1, w)
               rgc == Mul(K3, w)
           IN  <<Add(w, Mul(rw, h)), Zero,
                 Add(tr, Mul(rt, h)), Add(gc, Mul(rgc, h))>>
      ELSE LET rw == Neg(Mul(K, w))
               rg == Mul(K2, tr)
               rt == Sub(Mul(K1, w), Mul(K2, tr))
               rgc == Mul(K3, w)
           IN  <<Add(w, Mul(rw, h)), Add(g1, Mul(rg, h)),
                 Add(tr, Mul(rt, h)), Add(gc, Mul(rgc, h))>>

\* liden2 updating gas1 from the total gas it is given
liden2_feedback(w, g1, tr, gc, g, c, kk, h) ==
  LET K == kk.K
      K1 == Mul(K, phistar)
      K2 == kk.K2
      K3 == Sub(K, K1)
      rw == Neg(Mul(K, w))
      rg == Mul(K2, tr)
      rt == Sub(Mul(K1, w), Mul(K2, tr))
      rgc == Mul(K3, w)
      nwood == Add(w, Mul(rw, h))
      ngas1 == Add(g, Mul(rg, h))
      ntar == Add(tr, Mul(rt, h))
      ngaschar == Add(gc, Mul(rgc, h))
      ngas == Add(ngas1, Mul(g3, ngaschar))
      nchar == Mul(c3, ngaschar)
  IN  <<nwood, ngas1, ntar, ngaschar, ngas, nchar>>

\* liden2 splitting the gas1 and gaschar it was given, not the new ones
liden2_stale(w, g1, tr, gc, g, c, kk, h) ==
  LET K == kk.K
      K1 == Mul(K, phistar)
      K2 == kk.K2
      K3 == Sub(K, K1)
      rw == Neg(Mul(K, w))
      rg == Mul(K2, tr)
      rt == Sub(Mul(K1, w), Mul(K2, tr))
      rgc == Mul(K3, w)
      nwood == Add(w, Mul(rw, h))
      ngas1 == Add(g1, Mul(rg, h))
      ntar == Add(tr, Mul(rt, h))
      ngaschar == Add(gc, Mul(rgc, h))
      ngas == Add(g1, Mul(g3, gc))
      nchar == Mul(c3, ngaschar)
  IN  <<nwood, ngas1, ntar, ngaschar, ngas, nchar>>

\* liden2 taking char as the char fraction of what wood is left
liden2_char(w, g1, tr, gc, g, c, kk, h) ==
  LET K == kk.K
      K1 == Mul(K, phistar)
      K2 == kk.K2
      K3 == Sub(K, K1)
      rw == Neg(Mul(K, w))
      rg == Mul(K2, tr)
      rt == Sub(Mul(K1, w), Mul(K2, tr))
      rgc == Mul(K3, w)
      nwood == Add(w, Mul(rw, h))
      ngas1 == Add(g1, Mul(rg, h))
      ntar == Add(tr, Mul(rt, h))
      ngaschar == Add(gc, Mul(rgc, h))
      ngas == Add(ngas1, Mul(g3, ngaschar))
      nchar == Mul(c3, nwood)
  IN  <<nwood, ngas1, ntar, ngaschar, ngas, nchar>>

\* liden_1988.py: liden2(wood, gas1, tar, gaschar, gas, char, T, dt)
liden2(w, g1, tr, gc, g, c, kk, h) ==
  LET K == kk.K
      K1 == Mul(K, phistar)
      K2 == kk.K2
      K3 == Sub(K, K1)
      rw == Neg(Mul(K, w))
      rg == Mul(K2, tr)
      rt == Sub(Mul(K1, w), Mul(K2, tr))
      rgc == Mul(K3, w)
      nwood == Add(w, Mul(rw, h))
      ngas1 == Add(g1, Mul(rg, h))
      ntar == Add(tr, Mul(rt, h))
      ngaschar == Add(gc, Mul(rgc, h))
      ngas == Add(ngas1, Mul(g3, ngaschar))
      nchar == Mul(c3, ngaschar)
  IN  <<nwood, ngas1, ntar, ngaschar, ngas, nchar>>

----------------------------------------------------------------------------
(* The scripts *)

Scripts == {"blasi", "kn_liden", "liden"}

\* numpy releases by what linspace does with num: up to 1.9 a num <= 0 gives
\* an empty array; from 1.10 a negative num raises ValueError; from 1.18 a
\* float num (tmax/dt is always a float) raises TypeError.
NumpyReleases == {"1.9", "1.17", "1.18"}

TVals == {0, 773}
DtVals == {Rat(-1, 1), Zero, Rat(1, 2), One, Rat(2, 1)}
TmaxVals == {Rat(n, 1) : n \in -2..MaxTmax}

ones(n) == [j \in 0..(n - 1) |-> One]
zeros(n) == [j \in 0..(n - 1) |-> Zero]

\* np.linspace(0, stop, num=num) on release rel: [exc, val]
linspace(stop, num, rel) ==
  LET n == Trunc(num)
  IN  IF rel = "1.18"
      THEN [exc |-> "TypeError", val |-> <<>>]
      ELSE IF n < 0 /\ rel = "1.17"
      THEN [exc |-> "ValueError", val |-> <<>>]
      ELSE IF n <= 0
      THEN [exc |-> "", val |-> zeros(0)]
      ELSE IF n = 1
      THEN [exc |-> "", val |-> zeros(1)]
      ELSE [exc |-> "",
            val |-> [j \in 0..(n - 1) |-> Mul(Rat(j, 1), Div(stop, Rat(n - 1, 1)))]]

NoCall == [fn |-> "", args |-> <<>>, s |-> 0, ret |-> <<>>]

Init ==
  /\ script \in Scripts
  /\ numpy \in NumpyReleases
  /\ T \in TVals
  /\ dt \in DtVals
  /\ tmax \in TmaxVals
  /\ k = NoRates
  /\ pc = "params"
  /\ err = ""
  /\ nt = 0
  /\ t = <<>>
  /\ i = 0
  /\ wood = <<>> /\ gas = <<>> /\ tar = <<>> /\ char = <<>>
  /\ wood2 = <<>> /\ gas2 = <<>> /\ tar2 = <<>> /\ char2 = <<>>
  /\ gas1 = <<>> /\ gaschar = <<>>
  /\ stdout = <<>>
  /\ call = NoCall

\* The rate constants a call computes: drawn at the script's first call,
\* the same at every later one (T never changes).
Rates == IF k = NoRates THEN RateConstants(script) ELSE {k}

\* t = np.linspace(0, tmax, num=tmax/dt); nt = len(t)
Params ==
  /\ pc = "params"
  /\ IF dt = Zero
     THEN /\ pc' = "error" /\ err' = "ZeroDivisionError"
          /\ UNCHANGED <<nt, t>>
     ELSE LET r == linspace(tmax, Div(tmax, dt), numpy)
          IN  IF r.exc # ""
              THEN /\ pc' = "error" /\ err' = r.exc
                   /\ UNCHANGED <<nt, t>>
              ELSE /\ pc' = "alloc" /\ err' = ""
                   /\ t' = r.val
                   /\ nt' = Cardinality(DOMAIN r.val)
  /\ UNCHANGED <<script, numpy, T, dt, tmax, k, i, series, stdout, call>>

\* the np.ones / np.zeros vectors of each script
Allocate ==
  /\ pc = "alloc"
  /\ pc' = "loop"
  /\ i' = 1
  /\ IF script = "blasi"
     THEN /\ wood' = ones(nt) /\ gas' = zeros(nt)
          /\ tar' = zeros(nt) /\ char' = zeros(nt)
          /\ wood2' = ones(nt) /\ gas2' = zeros(nt)
          /\ tar2' = zeros(nt) /\ char2' = zeros(nt)
          /\ UNCHANGED <<gas1, gaschar>>
     ELSE IF script = "kn_liden"
     THEN /\ wood' = ones(nt) /\ tar' = zeros(nt)
          /\ UNCHANGED <<gas, char, wood2, gas2, tar2, char2, gas1, gaschar>>
     ELSE /\ wood' = [r \in 0..2 |-> ones(nt)]
          /\ gas1' = [r \in 0..2 |-> zeros(nt)]
          /\ tar' = [r \in 0..2 |-> zeros(nt)]
          /\ gaschar' = [r \in 0..2 |-> zeros(nt)]
          /\ gas' = zeros(nt) /\ char' = zeros(nt)
          /\ UNCHANGED <<wood2, gas2, tar2, char2>>
  /\ UNCHANGED <<script, numpy, T, dt, tmax, k, err, nt, t, stdout, call>>

\* a stepping call raised: the script ends with the vectors as they are
Fail(exc) ==
  /\ pc' = "error" /\ err' = exc
  /\ UNCHANGED <<script, numpy, T, dt, tmax, k, nt, t, i, series, stdout, call>>

\* blasi_1993.py: one iteration of the primary-reactions loop
BlasiStep ==
  /\ script = "blasi" /\ pc = "loop" /\ i < nt
  /\ IF Raises(T) # ""
     THEN Fail(Raises(T))
     ELSE \E kk \in Rates :
            LET r == blasi(wood[i-1], gas[i-1], tar[i-1], char[i-1], kk, dt, 1)
            IN  /\ k' = kk
                /\ wood' = [wood EXCEPT ![i] = r[1]]
                /\ gas' = [gas EXCEPT ![i] = r[2]]
                /\ tar' = [tar EXCEPT ![i] = r[3]]
                /\ char' = [char EXCEPT ![i] = r[4]]
                /\ i' = i + 1
                /\ UNCHANGED <<script, numpy, T, dt, tmax, pc, err, nt, t, wood2,
                               gas2, tar2, char2, gas1, gaschar, stdout, call>>

\* blasi_1993.py: the first loop is over, the second starts
BlasiNext ==
  /\ script = "blasi" /\ pc = "loop" /\ i >= nt
  /\ pc' = "loop2"
  /\ i' = 1
  /\ UNCHANGED <<script, numpy, T, dt, tmax, k, err, nt, t, series, stdout, call>>

\* blasi_1993.py: one iteration of the primary+secondary loop
Blasi2Step ==
  /\ script = "blasi" /\ pc = "loop2" /\ i < nt
  /\ IF Raises(T) # ""
     THEN Fail(Raises(T))
     ELSE \E kk \in Rates :
            LET r == blasi(wood2[i-1], gas2[i-1], tar2[i-1], char2[i-1], kk, dt, 2)
            IN  /\ k' = kk
                /\ wood2' = [wood2 EXCEPT ![i] = r[1]]
                /\ gas2' = [gas2 EXCEPT ![i] = r[2]]
                /\ tar2' = [tar2 EXCEPT ![i] = r[3]]
                /\ char2' = [char2 EXCEPT ![i] = r[4]]
                /\ i' = i + 1
                /\ UNCHANGED <<script, numpy, T, dt, tmax, pc, err, nt, t, wood,
                               gas, tar, char, gas1, gaschar, stdout, call>>

\* kn_liden_1988.py: one iteration of the loop
KnLidenStep ==
  /\ script = "kn_liden" /\ pc = "loop" /\ i < nt
  /\ IF Raises(T) # ""
     THEN Fail(Raises(T))
     ELSE \E kk \in Rates :
            LET r == kn_liden(wood[i-1], tar[i-1], kk, dt, 1)
            IN  /\ k' = kk
                /\ wood' = [wood EXCEPT ![i] = r[1]]
                /\ tar' = [tar EXCEPT ![i] = r[2]]
                /\ i' = i + 1
                /\ UNCHANGED <<script, numpy, T, dt, tmax, pc, err, nt, t, gas,
                               char, wood2, gas2, tar2, char2, gas1, gaschar,
                               stdout, call>>

\* liden_1988.py: one iteration of the loop, its three calls
LidenStep ==
  /\ script = "liden" /\ pc = "loop" /\ i < nt
  /\ IF Raises(T) # ""
     THEN Fail(Raises(T))
     ELSE \E kk \in Rates :
            LET r0 == liden(wood[0][i-1], gas1[0][i-1], tar[0][i-1],
                            gaschar[0][i-1], kk, dt, 1)
                r1 == liden(wood[1][i-1], gas1[1][i-1], tar[1][i-1],
                            gaschar[1][i-1], kk, dt, 2)
                r2 == liden2(wood[2][i-1], gas1[2][i-1], tar[2][i-1],
                             gaschar[2][i-1], gas[i-1], char[i-1], kk, dt)
            IN  /\ k' = kk
                /\ wood' = [wood EXCEPT ![0][i] = r0[1], ![1][i] = r1[1],
                                        ![2][i] = r2[1]]
                /\ gas1' = [gas1 EXCEPT ![0][i] = r0[2], ![1][i] = r1[2],
                                        ![2][i] = r2[2]]
                /\ tar' = [tar EXCEPT ![0][i] = r0[3], ![1][i] = r1[3],
                                      ![2][i] = r2[3]]
                /\ gaschar' = [gaschar EXCEPT ![0][i] = r0[4], ![1][i] = r1[4],
                                              ![2][i] = r2[4]]
                /\ gas' = [gas EXCEPT ![i] = r2[5]]
                /\ char' = [char EXCEPT ![i] = r2[6]]
                /\ i' = i + 1
                /\ UNCHANGED <<script, numpy, T, dt, tmax, pc, err, nt, t, wood2,
                               gas2, tar2, char2, stdout, call>>

\* liden_1988.py: the three mass-balance vectors printed after the loop
MassBalance ==
  /\ script = "liden" /\ pc = "loop" /\ i >= nt
  /\ stdout' =
       << [j \in 0..(nt - 1) |->
             Add(Add(Add(wood[0][j], gas1[0][j]), tar[0][j]), gaschar[0][j])],
          [j \in 0..(nt - 1) |->
             Add(Add(Add(wood[1][j], gas1[1][j]), tar[1][j]), gaschar[1][j])],
          [j \in 0..(nt - 1) |->
             Add(Add(Add(wood[2][j], tar[2][j]), gas[j]), char[j])] >>
  /\ pc' = "done"
  /\ UNCHANGED <<script, numpy, T, dt, tmax, k, err, nt, t, i, series, call>>

\* blasi_1993.py, kn_liden_1988.py: the last loop is over (plotting follows)
Finish ==
  /\ \/ script = "blasi" /\ pc = "loop2"
     \/ script = "kn_liden" /\ pc = "loop"
  /\ i >= nt
  /\ pc' = "done"
  /\ UNCHANGED <<script, numpy, T, dt, tmax, k, err, nt, t, i, series, stdout, call>>

Next ==
  \/ Params
  \/ Allocate
  \/ BlasiStep
  \/ BlasiNext
  \/ Blasi2Step
  \/ KnLidenStep
  \/ LidenStep
  \/ MassBalance
  \/ Finish

Spec == Init /\ [][Next]_vars

----------------------------------------------------------------------------
(* A single call of a stepping function on arbitrary arguments *)

ArgVals == {Zero, Rat(1, 2), One}     \* wood and tar arguments
ArgVals2 == {Zero, One}               \* the other species' arguments

InitCall ==
  /\ script \in Scripts
  /\ numpy = "1.17"
  /\ T \in TVals
  /\ dt \in DtVals
  /\ tmax = Zero
  /\ k = NoRates
  /\ pc = "call"
  /\ err = ""
  /\ nt = 0
  /\ t = <<>>
  /\ i = 0
  /\ wood = <<>> /\ gas = <<>> /\ tar = <<>> /\ char = <<>>
  /\ wood2 = <<>> /\ gas2 = <<>> /\ tar2 = <<>> /\ char2 = <<>>
  /\ gas1 = <<>> /\ gaschar = <<>>
  /\ stdout = <<>>
  /\ call = NoCall

\* the call returns ret, or raises
Return(fn, args, s, kk, ret) ==
  /\ IF Raises(T) # ""
     THEN /\ pc' = "error" /\ err' = Raises(T) /\ k' = k
          /\ call' = [fn |-> fn, args |-> args, s |-> s, ret |-> <<>>]
     ELSE /\ pc' = "returned" /\ err' = "" /\ k' = kk
          /\ call' = [fn |-> fn, args |-> args, s |-> s, ret |-> ret]
  /\ UNCHANGED <<script, numpy, T, dt, tmax, nt, t, i, series, stdout>>

CallBlasi ==
  /\ script = "blasi" /\ pc = "call"
  /\ \E s \in {1, 2}, w \in ArgVals, tr \in ArgVals, g \in ArgVals2,
        c \in ArgVals2, kk \in Rates :
       Return("blasi", <<w, g, tr, c>>, s, kk, blasi(w, g, tr, c, kk, dt, s))

CallKnLiden ==
  /\ script = "kn_liden" /\ pc = "call"
  /\ \E s \in {1, 2}, w \in ArgVals, tr \in ArgVals, kk \in Rates :
       Return("kn_liden", <<w, tr>>, s, kk, kn_liden(w, tr, kk, dt, s))

CallLiden ==
  /\ script = "liden" /\ pc = "call"
  /\ \E s \in {1, 2}, w \in ArgVals, tr \in ArgVals, g1 \in ArgVals2,
        gc \in ArgVals2, kk \in Rates :
       Return("liden", <<w, g1, tr, gc>>, s, kk, liden(w, g1, tr, gc, kk, dt, s))

CallLiden2 ==
  /\ script = "liden" /\ pc = "call"
  /\ \E w \in ArgVals, tr \in ArgVals, g1 \in ArgVals2, gc \in ArgVals2,
        g \in ArgVals2, c \in ArgVals2, kk \in Rates :
       Return("liden2", <<w, g1, tr, gc, g, c>>, 2, kk,
              liden2(w, g1, tr, gc, g, c, kk, dt))

NextCall ==
  \/ CallBlasi
  \/ CallKnLiden
  \/ CallLiden
  \/ CallLiden2

SpecCall == InitCall /\ [][NextCall]_vars

----------------------------------------------------------------------------
(* Vocabulary of the properties *)

Ceil(x) == -((-x[1]) \div x[2])

\* the indices a script's (first) loop has filled in, index 0 being the
\* initial condition
Computed ==
  IF pc \in {"params", "alloc", "call", "returned"}
  THEN {}
  ELSE {j \in 0..(nt - 1) : j < (IF pc \in {"loop", "error"} THEN i ELSE nt)}

\* the same for blasi_1993.py's second loop
Computed2 ==
  IF pc \in {"params", "alloc", "call", "returned"}
  THEN {}
  ELSE {j \in 0..(nt - 1) : j < (IF pc = "loop2" THEN i ELSE IF pc = "done" THEN nt ELSE 1)}

Sum4(a, b, c, d) == Add(Add(Add(a, b), c), d)

RatesKnown == k # NoRates

\* dt times every rate constant, and times every sum of the rate constants
\* that leave one species, is within [0, 1], with dt > 0
Stable ==
  /\ RatesKnown
  /\ Lt(Zero, dt)
  /\ IF script = "blasi"
     THEN /\ Leq(Mul(dt, Add(Add(k.K1, k.K2), k.K3)), One)
          /\ Leq(Mul(dt, Add(k.K4, k.K5)), One)
     ELSE /\ Leq(Mul(dt, k.K), One)
          /\ Leq(Mul(dt, k.K2), One)

\* dt times the total rate constant of wood consumption
WoodDecay ==
  IF script = "blasi" THEN Mul(dt, Add(Add(k.K1, k.K2), k.K3)) ELSE Mul(dt, k.K)

\* every variant's wood series is non-increasing over its filled-in indices
Monotone ==
  /\ script = "blasi" =>
       /\ \A j \in Computed :
            (j + 1) \in Computed => Leq(wood[j + 1], wood[j])
       /\ \A j \in Computed2 :
            (j + 1) \in Computed2 => Leq(wood2[j + 1], wood2[j])
  /\ script = "kn_liden" =>
       \A j \in Computed :
         (j + 1) \in Computed => Leq(wood[j + 1], wood[j])
  /\ script = "liden" =>
       \A j \in Computed :
         (j + 1) \in Computed =>
           \A r \in 0..2 : Leq(wood[r][j + 1], wood[r][j])

----------------------------------------------------------------------------
(* C1: mass conservation. In the closed schemes (Blasi s=1 and s=2, Liden  *)
(* 4-lump s=1 and s=2, Liden 6-lump) the tracked species sum to 1 at every *)
(* filled-in index, for any rate constants and any dt; the three vectors   *)
(* liden_1988.py prints are all ones.                                      *)
MassConservation ==
  /\ script = "blasi" =>
       /\ \A j \in Computed : Sum4(wood[j], gas[j], tar[j], char[j]) = One
       /\ \A j \in Computed2 : Sum4(wood2[j], gas2[j], tar2[j], char2[j]) = One
  /\ script = "liden" =>
       /\ \A j \in Computed :
            /\ Sum4(wood[0][j], gas1[0][j], tar[0][j], gaschar[0][j]) = One
            /\ Sum4(wood[1][j], gas1[1][j], tar[1][j], gaschar[1][j]) = One
            /\ Sum4(wood[2][j], tar[2][j], gas[j], char[j]) = One
       /\ pc = "done" =>
            \A r \in 1..3 : \A j \in 0..(nt - 1) : stdout[r][j] = One

\* a finished liden_1988.py run of three or more indices in which tar was
\* formed and cracked to gas
MassConservationWitness ==
  /\ script = "liden" /\ pc = "done" /\ nt >= 3
  /\ dt # Zero
  /\ tar[1][nt - 1] # Zero /\ gas1[2][nt - 1] # Zero /\ char[nt - 1] # Zero
  /\ tar[0][nt - 1] # Zero

----------------------------------------------------------------------------
(* C2 as stated: in every variant and for every run configuration (taken   *)
(* as every dt > 0, tmax > 0, T > 0) the wood series is non-increasing,    *)
(* wood[j+1] <= wood[j] for consecutive indices.                           *)
WoodNonIncreasing ==
  (Lt(Zero, dt) /\ Lt(Zero, tmax) /\ T > 0) => Monotone

(* C2 amended: in every variant the wood series is non-increasing in every *)
(* run whose step satisfies 0 <= dt * Ktot <= 1, Ktot being K1+K2+K3 for   *)
(* Blasi and K for Liden.                                                  *)
WoodNonIncreasingWhenStable ==
  (RatesKnown /\ Leq(Zero, WoodDecay) /\ Leq(WoodDecay, One)) => Monotone

\* a finished Blasi run within that limit whose wood strictly decreased twice
WoodNonIncreasingWitness ==
  /\ script = "blasi" /\ pc = "done" /\ nt >= 3
  /\ RatesKnown /\ Leq(Zero, WoodDecay) /\ Leq(WoodDecay, One)
  /\ Lt(wood2[1], wood2[0]) /\ Lt(wood2[2], wood2[1])
  /\ Lt(wood[2], wood[1])

----------------------------------------------------------------------------
InvalidConfig == Leq(dt, Zero) \/ Leq(tmax, Zero) \/ T <= 0

(* C3: a run given dt <= 0, tmax <= 0 or T <= 0 fails before the loop      *)
(* executes any step and never returns a series.                           *)
InvalidConfigurationFails ==
  InvalidConfig => /\ pc # "done"
                   /\ pc \in {"loop", "loop2"} => i <= 1

\* the rest of C3: every other run completes the full time grid, and no run
\* fails part-way through the loop
ValidConfigurationCompletes ==
  /\ ~InvalidConfig => pc # "error"
  /\ pc = "error" => i <= 1

----------------------------------------------------------------------------
(* C4: for a run with dt > 0 and tmax > 0 (and T > 0) the time vector has  *)
(* ceil(tmax/dt) entries and its j-th entry is j*dt, the time the j-th     *)
(* concentration, j Euler steps of size dt from the start, belongs to.     *)
TimeGrid ==
  (~InvalidConfig /\ pc \notin {"params", "error", "call", "returned"}) =>
    /\ nt = Ceil(Div(tmax, dt))
    /\ \A j \in 0..(nt - 1) : t[j] = Mul(Rat(j, 1), dt)

----------------------------------------------------------------------------
NonNeg(x) == Leq(Zero, x)

(* C5: in a run whose step is within the explicit-Euler stability limit,   *)
(* no species of any variant, tar of the Liden 2-species scheme included,  *)
(* is negative at any filled-in index.                                     *)
NonNegativeWhenStable ==
  Stable =>
    /\ script = "blasi" =>
         /\ \A j \in Computed : /\ NonNeg(wood[j]) /\ NonNeg(gas[j])
                                /\ NonNeg(tar[j]) /\ NonNeg(char[j])
         /\ \A j \in Computed2 : /\ NonNeg(wood2[j]) /\ NonNeg(gas2[j])
                                 /\ NonNeg(tar2[j]) /\ NonNeg(char2[j])
    /\ script = "kn_liden" =>
         \A j \in Computed : NonNeg(wood[j]) /\ NonNeg(tar[j])
    /\ script = "liden" =>
         \A j \in Computed :
           /\ \A r \in 0..2 : /\ NonNeg(wood[r][j]) /\ NonNeg(gas1[r][j])
                              /\ NonNeg(tar[r][j]) /\ NonNeg(gaschar[r][j])
           /\ NonNeg(gas[j]) /\ NonNeg(char[j])

\* the same without the Liden 2-species tar
NonNegativeButKnTar ==
  Stable =>
    /\ script = "kn_liden" => \A j \in Computed : NonNeg(wood[j])
    /\ script # "kn_liden" => NonNegativeWhenStable

----------------------------------------------------------------------------
ZeroRates ==
  /\ RatesKnown
  /\ IF script = "blasi"
     THEN k = [K1 |-> Zero, K2 |-> Zero, K3 |-> Zero, K4 |-> Zero, K5 |-> Zero]
     ELSE k = [K |-> Zero, K2 |-> Zero]

(* C6: when every rate constant is 0, every species of every variant, the  *)
(* derived gas and char of the 6-lump run included, keeps its initial      *)
(* value (wood 1, the others 0) at every filled-in index.                  *)
ZeroRateIdempotence ==
  ZeroRates =>
    /\ script = "blasi" =>
         /\ \A j \in Computed : /\ wood[j] = One /\ gas[j] = Zero
                                /\ tar[j] = Zero /\ char[j] = Zero
         /\ \A j \in Computed2 : /\ wood2[j] = One /\ gas2[j] = Zero
                                 /\ tar2[j] = Zero /\ char2[j] = Zero
    /\ script = "kn_liden" =>
         \A j \in Computed : wood[j] = One /\ tar[j] = Zero
    /\ script = "liden" =>
         \A j \in Computed :
           /\ \A r \in 0..2 : /\ wood[r][j] = One /\ gas1[r][j] = Zero
                              /\ tar[r][j] = Zero /\ gaschar[r][j] = Zero
           /\ gas[j] = Zero /\ char[j] = Zero

\* a finished liden_1988.py run of three or more indices, dt not 0, all
\* rate constants 0
ZeroRateIdempotenceWitness ==
  /\ script = "liden" /\ pc = "done" /\ nt >= 3 /\ dt # Zero
  /\ ZeroRates

----------------------------------------------------------------------------
(* C7: at every filled-in index the (wood, gas1, tar, gaschar) of the      *)
(* 6-lump run (row 2, liden2) equal those of the 4-lump s=2 run (row 1,    *)
(* liden); the gas and char fed back into liden2 do not influence them.    *)
SixLumpMatchesFourLump ==
  script = "liden" =>
    \A j \in Computed :
      /\ wood[2][j] = wood[1][j] /\ gas1[2][j] = gas1[1][j]
      /\ tar[2][j] = tar[1][j] /\ gaschar[2][j] = gaschar[1][j]

\* a finished run in which the fed-back gas and char are not 0 and gas
\* differs from gas1
SixLumpMatchesFourLumpWitness ==
  /\ script = "liden" /\ pc = "done" /\ nt >= 3
  /\ gas[nt - 2] # Zero /\ char[nt - 2] # Zero
  /\ gas[nt - 2] # gas1[2][nt - 2]
  /\ gas1[1][nt - 1] # Zero /\ tar[1][nt - 1] # Zero

----------------------------------------------------------------------------
(* C8: at every filled-in index j of the 6-lump run                        *)
(* gas[j] = gas1[j] + g3*gaschar[j] and char[j] = c3*gaschar[j], with      *)
(* c3 = FC/(1-phistar) = 0.14/0.297 and c3 + g3 = 1, hence                 *)
(* gas[j] + char[j] = gas1[j] + gaschar[j].                                *)
SixLumpSplit ==
  /\ c3 = Rat(140, 297)
  /\ Add(c3, g3) = One
  /\ script = "liden" =>
       \A j \in Computed :
         /\ gas[j] = Add(gas1[2][j], Mul(Sub(One, Rat(140, 297)), gaschar[2][j]))
         /\ char[j] = Mul(Rat(140, 297), gaschar[2][j])
         /\ Add(gas[j], char[j]) = Add(gas1[2][j], gaschar[2][j])

\* the loop has filled in an index where gaschar changed since the index
\* before and gas1 and gaschar are not 0
SixLumpSplitWitness ==
  /\ script = "liden" /\ pc = "loop" /\ i = 3 /\ nt >= 3
  /\ gaschar[2][2] # gaschar[2][1] /\ gas1[2][2] # Zero
  /\ gas[2] # Zero /\ char[2] # Zero

----------------------------------------------------------------------------
----------------------------------------------------------------------------
(* C10: blasi(wood, gas, tar, char, T, dt, s=2) returns old + r*dt for all *)
(* four species, every rate taken from the wood and tar it was given, and  *)
(* returns the values as computed, negative ones included.                 *)
BlasiSimultaneousUpdate ==
  (pc = "returned" /\ call.fn = "blasi" /\ call.s = 2) =>
    LET w == call.args[1]
        g == call.args[2]
        tr == call.args[3]
        c == call.args[4]
        w1 == Mul(Mul(k.K1, w), dt)     \* wood -> gas in one step
        w2 == Mul(Mul(k.K2, w), dt)     \* wood -> tar
        w3 == Mul(Mul(k.K3, w), dt)     \* wood -> char
        t4 == Mul(Mul(k.K4, tr), dt)    \* tar -> gas
        t5 == Mul(Mul(k.K5, tr), dt)    \* tar -> char
    IN  call.ret = << Sub(Sub(Sub(w, w1), w2), w3),
                      Add(Add(g, w1), t4),
                      Sub(Sub(Add(tr, w2), t4), t5),
                      Add(Add(c, w3), t5) >>

\* a call with s = 2 on nonzero wood and tar returned a negative wood and a
\* negative tar
BlasiSimultaneousUpdateWitness ==
  /\ pc = "returned" /\ call.fn = "blasi" /\ call.s = 2
  /\ call.args[1] # Zero /\ call.args[3] # Zero
  /\ Lt(Zero, dt)
  /\ Lt(call.ret[1], Zero) /\ Lt(call.ret[3], Zero)

====
